---- MODULE Spec2Model ----
(***************************************************************************)
(* Model of src/coingekco_data_pipeline.py: the Airflow DAG                *)
(* coingecko_to_bigquery.  One run imports the DAG file (which ensures the *)
(* two BigQuery datasets exist) and then executes the four tasks           *)
(*   fetch_data >> load_raw_to_bigquery >> clean_data >>                   *)
(*   load_clean_to_bigquery                                                *)
(* each retried `retries` times by the orchestrator.                       *)
(*                                                                         *)
(* A DataFrame is a sequence of rows; a row is a function from column      *)
(* names to values.  The JSON text of to_json(orient="records") is the     *)
(* same sequence of records; what read_json changes when it parses that    *)
(* text (the fetch_time column becomes a datetime) is modelled by          *)
(* read_json.  A datetime is a number of clock ticks; the text of a        *)
(* datetime is the tuple <<seconds>> or <<seconds, fraction>>, the         *)
(* fraction being left out when it is zero, as isoformat() and str() do.   *)
(***************************************************************************)
EXTENDS Integers, Sequences, FiniteSets, TLC

VARIABLES
    datasets,     \* names of the datasets that exist in the warehouse
    importError,  \* TRUE when the last import of the DAG file raised
    runs,         \* number of DAG runs started
    stage,        \* task the run is at, or "idle" / "success" / "failed" / "import_error"
    tries,        \* try number of the current task (1 = first attempt)
    log,          \* this run's finished task attempts: <<task, outcome>>
    page,         \* fetch_coingecko_data: loop variable
    all_data,     \* fetch_coingecko_data: rows accumulated so far
    reqLog,       \* this run's HTTP requests: [try, page, status, data, time]
    clock,        \* wall clock (ticks)
    xcom,         \* task_id -> <<>> (nothing pushed) or <<json>>
    queried,      \* clean_data: <<df>>, df as the query returned it, from the
                  \* task's return until the next task starts; else <<>>
    rawTable,     \* crypto_raw.coingecko_data
    cleanTable,   \* crypto_clean.coingecko_data
    rawLen0,      \* Len(rawTable) when this run started
    cleanLen0     \* Len(cleanTable) when this run started

vars == <<datasets, importError, runs, stage, tries, log, page, all_data,
          reqLog, clock, xcom, queried, rawTable, cleanTable, rawLen0,
          cleanLen0>>

fetchVars == <<page, all_data, reqLog, clock>>
tableVars == <<rawTable, cleanTable>>

----------------------------------------------------------------------------
(* Bounds of the model *)

\* fetch_coingecko_data(pages=..., per_page=...): the invocation modelled
pages == 2
per_page == 1
\* the scheduler starts no run at or after this clock value
MaxClock == 4
\* clock ticks in one second (resolution of datetime.utcnow())
TicksPerSecond == 2

----------------------------------------------------------------------------
(* Configuration *)

retries == 1

raw_dataset == "crypto_raw"
clean_dataset == "crypto_clean"

EnsureList == <<raw_dataset, clean_dataset>>

NULL == "<null>"

keep_cols == <<"id", "symbol", "name", "current_price", "market_cap",
               "total_volume", "high_24h", "low_24h",
               "price_change_percentage_24h", "fetch_time">>

Tasks == <<"fetch_data", "load_raw_to_bigquery", "clean_data", "load_clean_to_bigquery">>

Range(s) == {s[i] : i \in DOMAIN s}

TaskIndex(t) == CHOOSE i \in DOMAIN Tasks : Tasks[i] = t

----------------------------------------------------------------------------
(* Upstream API *)

ApiRow(id, symbol, name, price) ==
    [id |-> id, symbol |-> symbol, name |-> name, current_price |-> price,
     image |-> "png"]

rA == ApiRow("bitcoin", "btc", "Bitcoin", 1)
rB == ApiRow("bitcoin", NULL, "Bitcoin", 2)

\* bodies the endpoint may answer a page request with
Payloads == {<<rA>>, <<rB>>}

\* the endpoint returns at most per_page rows for one page
ApiPages(n) == {d \in Payloads : Len(d) <= n}

HttpStatus == {200, 429, 500}

\* variant: a 429 is answered by asking for the same page again
same_page(p) == p

\* `continue` in `for page in range(1, pages + 1)`: the loop takes the
\* next page
after_429(p) == p + 1

\* variant: the status is never checked
never_raises(status) == FALSE

\* requests.Response.raise_for_status raises on 4xx and 5xx
raises_for_status(status) == status >= 400 /\ status < 600

----------------------------------------------------------------------------
(* Time and its text *)

isoformat(t) ==
    IF t % TicksPerSecond = 0 THEN <<t \div TicksPerSecond>>
    ELSE <<t \div TicksPerSecond, t % TicksPerSecond>>

to_datetime(s) ==
    s[1] * TicksPerSecond + (IF Len(s) > 1 THEN s[2] ELSE 0)

astype_str(t) ==
    IF t % TicksPerSecond = 0 THEN <<t \div TicksPerSecond>>
    ELSE <<t \div TicksPerSecond, t % TicksPerSecond>>

\* order of STRING values in the warehouse (code point order; a proper
\* prefix is smaller)
RECURSIVE StrLess(_, _)
StrLess(a, b) ==
    IF b = << >> THEN FALSE
    ELSE IF a = << >> THEN TRUE
    ELSE IF a[1] # b[1] THEN a[1] < b[1]
    ELSE StrLess(Tail(a), Tail(b))

----------------------------------------------------------------------------
(* Module level: ensure datasets exist *)

\* bq_client.get_dataset(ds) returns when the dataset exists and raises
\* NotFound when it does not
get_dataset(ds, st) == ds \in st.datasets

\* bq_client.create_dataset(ds), called without exists_ok: raises Conflict
\* when the dataset exists already
create_dataset(ds, st) ==
    IF ds \in st.datasets THEN [st EXCEPT !.error = TRUE]
    ELSE [st EXCEPT !.datasets = @ \cup {ds}]

\* variant: create without looking first
create_always(ds, st) == create_dataset(ds, st)

\* one pass of the loop body: try get_dataset / except create_dataset
ensure_dataset(ds, st) ==
    IF get_dataset(ds, st) THEN st ELSE create_dataset(ds, st)

\* the loop over [raw_dataset, clean_dataset]; an exception ends the import
RECURSIVE ensure_from(_, _)
ensure_from(i, st) ==
    IF i > Len(EnsureList) \/ st.error THEN st
    ELSE ensure_from(i + 1, ensure_dataset(EnsureList[i], st))

EnsureDatasets(ds) == ensure_from(1, [datasets |-> ds, error |-> FALSE])

----------------------------------------------------------------------------
(* DataFrame operations *)

\* variant: new rows put before the accumulated ones
extend_front(acc, data) == data \o acc

\* list.extend
extend(acc, data) == acc \o data

\* variant: the clock read again for every row
with_fetch_time_per_row(df, now) ==
    [i \in DOMAIN df |-> df[i] @@ ("fetch_time" :> isoformat(now + i - 1))]

\* df["fetch_time"] = <scalar>: one value for every row
with_fetch_time(df, now) ==
    [i \in DOMAIN df |-> df[i] @@ ("fetch_time" :> isoformat(now))]

\* pd.read_json: a column whose name ends in _time is parsed as a date
read_json(json) ==
    [i \in DOMAIN json |->
        [c \in DOMAIN json[i] |->
            IF c = "fetch_time" THEN to_datetime(json[i][c]) ELSE json[i][c]]]

\* df['fetch_time'] = df['fetch_time'].astype(str), when the column exists
fetch_time_to_str(df) ==
    [i \in DOMAIN df |->
        [c \in DOMAIN df[i] |->
            IF c = "fetch_time" THEN astype_str(df[i][c]) ELSE df[i][c]]]

\* variant: write_disposition="WRITE_TRUNCATE"
write_truncate(table, df) == df

\* load_table_from_dataframe(..., write_disposition="WRITE_APPEND")
load_table_from_dataframe(table, df) == table \o df

\* variant: a load job that fails after writing its first row
partial_load(table, df) == table \o SubSeq(df, 1, 1)

\* the table after a load job that failed (job.result() raised): a load
\* job lands whole or not at all
failed_load(table, df) == table

\* SELECT MAX(fetch_time) FROM table: the set holding the maximum, empty
\* for an empty table (MAX is then NULL)
max_fetch_time(table) ==
    {t \in {r["fetch_time"] : r \in Range(table)} :
        \A r \in Range(table) : ~StrLess(t, r["fetch_time"])}

\* variant: SELECT * without the WHERE clause
query_all(table) == table

\* SELECT * FROM table WHERE fetch_time = (SELECT MAX(fetch_time) ...)
query_latest(table) ==
    SelectSeq(table, LAMBDA r : r["fetch_time"] \in max_fetch_time(table))

RemoveAt(s, i) == SubSeq(s, 1, i - 1) \o SubSeq(s, i + 1, Len(s))

\* the query has no ORDER BY: its rows come back in any order
RECURSIVE Orderings(_)
Orderings(s) ==
    IF s = << >> THEN {<< >>}
    ELSE UNION {{<<s[i]>> \o p : p \in Orderings(RemoveAt(s, i))} : i \in DOMAIN s}

\* df.drop_duplicates(subset=["id"]): keep the first row of every id
\* (missing ids compare equal to each other)
RECURSIVE drop_from(_, _, _)
drop_from(df, i, seen) ==
    IF i > Len(df) THEN << >>
    ELSE IF df[i]["id"] \in seen THEN drop_from(df, i + 1, seen)
    ELSE <<df[i]>> \o drop_from(df, i + 1, seen \cup {df[i]["id"]})

\* variant: no deduplication
keep_all(df) == df

drop_duplicates(df) == drop_from(df, 1, {})

\* variant: dropna(subset=["id"])
dropna_id_only(df) == SelectSeq(df, LAMBDA r : r["id"] # NULL)

\* df.dropna(subset=["id", "symbol", "name"])
dropna(df) ==
    SelectSeq(df, LAMBDA r : r["id"] # NULL /\ r["symbol"] # NULL
                             /\ r["name"] # NULL)

\* df[[col for col in keep_cols if col in df.columns]]
select_cols(df) ==
    [i \in DOMAIN df |-> [c \in DOMAIN df[i] \cap Range(keep_cols) |-> df[i][c]]]

\* variant: rows with missing keys dropped before the duplicates
dropna_first(df) == select_cols(drop_duplicates(dropna(df)))

\* clean_data, lines 119-129: drop_duplicates, then dropna, then the columns
clean_frame(df) == select_cols(dropna(drop_duplicates(df)))

----------------------------------------------------------------------------
(* Orchestrator *)

\* fetch_task >> load_raw_task >> clean_task >> load_clean_task
downstream(t) ==
    IF TaskIndex(t) < Len(Tasks) THEN Tasks[TaskIndex(t) + 1] ELSE "success"

\* variant: downstream tasks run whatever the outcome
skip_failed(t, n) == downstream(t)

\* variant: a failed try is always retried
retry_always(t, n) == t

\* a failed try is retried while tries remain, else the run fails
after_failure(t, n) == IF n <= retries THEN t ELSE "failed"

TaskSucceeded(t) ==
    /\ log' = Append(log, <<t, "success">>)
    /\ stage' = downstream(t)
    /\ tries' = 1

TaskFailed(t) ==
    /\ log' = Append(log, <<t, "failed">>)
    /\ stage' = after_failure(t, tries)
    /\ tries' = IF after_failure(t, tries) = t THEN tries + 1 ELSE tries

NoXcom == [t \in Range(Tasks) |-> << >>]

----------------------------------------------------------------------------
(* The run *)

Init ==
    /\ datasets \in SUBSET Range(EnsureList)
    /\ importError = FALSE
    /\ runs = 0
    /\ stage = "idle"
    /\ tries = 1
    /\ log = << >>
    /\ page = 1
    /\ all_data = << >>
    /\ reqLog = << >>
    /\ clock = 0
    /\ xcom = NoXcom
    /\ queried = << >>
    /\ rawTable = << >>
    /\ cleanTable = << >>
    /\ rawLen0 = 0
    /\ cleanLen0 = 0

\* The scheduler starts a run: the DAG file is imported (lines 29-45 run),
\* and fetch_data is scheduled unless the import raised.
ImportModule ==
    /\ stage \in {"idle", "success", "failed", "import_error"}
    /\ clock < MaxClock
    /\ runs' = runs + 1
    /\ LET st == EnsureDatasets(datasets) IN
         /\ datasets' = st.datasets
         /\ importError' = st.error
         /\ stage' = IF st.error THEN "import_error" ELSE Tasks[1]
    /\ tries' = 1
    /\ log' = << >>
    /\ page' = 1
    /\ all_data' = << >>
    /\ reqLog' = << >>
    /\ xcom' = NoXcom
    /\ queried' = << >>
    /\ rawLen0' = Len(rawTable)
    /\ cleanLen0' = Len(cleanTable)
    /\ UNCHANGED <<clock, rawTable, cleanTable>>

\* fetch_coingecko_data: one iteration of the loop over range(1, pages + 1)
FetchPage ==
    /\ stage = "fetch_data"
    /\ page <= pages
    /\ \E status \in HttpStatus :
       \E data \in (IF status = 200 THEN ApiPages(per_page) ELSE {<< >>}) :
         /\ reqLog' = Append(reqLog, [try |-> tries, page |-> page,
                                      status |-> status, data |-> data,
                                      time |-> clock])
         /\ clock' = clock + 1
         /\ IF status = 429
              THEN \* sleep(5); continue: the for loop takes the next page
                   /\ page' = after_429(page)
                   /\ UNCHANGED <<all_data, stage, tries, log>>
              ELSE IF raises_for_status(status)
              THEN \* the exception ends this try of the task
                   /\ page' = 1
                   /\ all_data' = << >>
                   /\ TaskFailed("fetch_data")
              ELSE /\ all_data' = extend(all_data, data)
                   /\ page' = page + 1
                   /\ UNCHANGED <<stage, tries, log>>
    /\ UNCHANGED <<datasets, importError, runs, xcom, queried, rawTable,
                   cleanTable, rawLen0, cleanLen0>>

\* fetch_coingecko_data after the loop: stamp, serialise, return (xcom push)
FetchReturn ==
    /\ stage = "fetch_data"
    /\ page > pages
    /\ xcom' = [xcom EXCEPT !["fetch_data"] = <<with_fetch_time(all_data, clock)>>]
    /\ TaskSucceeded("fetch_data")
    /\ page' = 1
    /\ all_data' = << >>
    /\ UNCHANGED <<datasets, importError, runs, reqLog, clock, queried,
                   rawTable, cleanTable, rawLen0, cleanLen0>>

\* load_raw_to_bigquery; job.result() raises when the load job failed
LoadRaw ==
    /\ stage = "load_raw_to_bigquery"
    /\ LET df == fetch_time_to_str(read_json(xcom["fetch_data"][1])) IN
         \E ok \in BOOLEAN :
            IF ok
            THEN /\ rawTable' = load_table_from_dataframe(rawTable, df)
                 /\ TaskSucceeded("load_raw_to_bigquery")
            ELSE /\ rawTable' = failed_load(rawTable, df)
                 /\ TaskFailed("load_raw_to_bigquery")
    /\ UNCHANGED <<datasets, importError, runs, page, all_data, reqLog, clock,
                   xcom, queried, cleanTable, rawLen0, cleanLen0>>

\* clean_data from the query's result df to the return (xcom push)
CleanReturns(df) ==
    /\ queried' = <<df>>
    /\ xcom' = [xcom EXCEPT !["clean_data"] = <<clean_frame(df)>>]
    /\ TaskSucceeded("clean_data")
    /\ UNCHANGED <<datasets, importError, runs, page, all_data, reqLog, clock,
                   rawTable, cleanTable, rawLen0, cleanLen0>>

\* clean_data; the query raises when the warehouse fails it
CleanData ==
    /\ stage = "clean_data"
    /\ \/ \E df \in Orderings(query_latest(rawTable)) : CleanReturns(df)
       \/ /\ TaskFailed("clean_data")
          /\ UNCHANGED <<datasets, importError, runs, page, all_data, reqLog,
                         clock, xcom, queried, rawTable, cleanTable, rawLen0,
                         cleanLen0>>

\* load_clean_to_bigquery
LoadClean ==
    /\ stage = "load_clean_to_bigquery"
    /\ LET df == fetch_time_to_str(read_json(xcom["clean_data"][1])) IN
         \E ok \in BOOLEAN :
            IF ok
            THEN /\ cleanTable' = load_table_from_dataframe(cleanTable, df)
                 /\ TaskSucceeded("load_clean_to_bigquery")
            ELSE /\ cleanTable' = failed_load(cleanTable, df)
                 /\ TaskFailed("load_clean_to_bigquery")
    /\ queried' = << >>
    /\ UNCHANGED <<datasets, importError, runs, page, all_data, reqLog, clock,
                   xcom, rawTable, rawLen0, cleanLen0>>

Next ==
    \/ ImportModule
    \/ FetchPage
    \/ FetchReturn
    \/ LoadRaw
    \/ CleanData
    \/ LoadClean

Spec == Init /\ [][Next]_vars

----------------------------------------------------------------------------
(* The cleaning tasks alone, over every small content of the raw table *)

\* rows in the raw table that may be cleaned
MaxRawRows == 3

BothDatasets == Range(EnsureList)

RawIds == {"bitcoin", "ethereum", NULL}
RawKeys == {<<"sym", "Name">>, <<NULL, "Name">>, <<"sym", NULL>>}

\* the two load times of earlier batches: a whole second and a fraction
InitTicks == {TicksPerSecond, TicksPerSecond + 1}

\* a row without id is taken with the other keys present only
RawIdKeys == {ik \in RawIds \X RawKeys : ik[1] # NULL \/ NULL \notin Range(ik[2])}

RawRows ==
    {ApiRow(ik[1], ik[2][1], ik[2][2], 1) @@ ("fetch_time" :> astype_str(t)) :
        ik \in RawIdKeys, t \in InitTicks}

\* batches are appended whole and in the order of their fetch_time
Chronological(table) ==
    \A i, j \in DOMAIN table :
        i < j => to_datetime(table[i]["fetch_time"]) <= to_datetime(table[j]["fetch_time"])

InitRawTables ==
    {table \in UNION {[1..n -> RawRows] : n \in 0..MaxRawRows} : Chronological(table)}

\* A run whose fetch was answered 429 on every page and whose raw load
\* appended the empty batch, at the start of clean_data.
InitClean ==
    /\ datasets = BothDatasets
    /\ importError = FALSE
    /\ runs = 1
    /\ stage = "clean_data"
    /\ tries = 1
    /\ log = <<<<"fetch_data", "success">>, <<"load_raw_to_bigquery", "success">>>>
    /\ page = 1
    /\ all_data = << >>
    /\ reqLog = [p \in 1..pages |->
                    [try |-> 1, page |-> p, status |-> 429, data |-> << >>,
                     time |-> TicksPerSecond + p]]
    /\ clock = TicksPerSecond + pages + 1
    /\ xcom = [NoXcom EXCEPT !["fetch_data"] = << << >> >>]
    /\ queried = << >>
    /\ rawTable \in InitRawTables
    /\ cleanTable = << >>
    /\ rawLen0 = Len(rawTable)
    /\ cleanLen0 = 0

NextClean ==
    \/ CleanData
    \/ LoadClean

SpecClean == InitClean /\ [][NextClean]_vars

----------------------------------------------------------------------------
(* Vocabulary of the properties *)

IsPrefix(s, t) == Len(s) <= Len(t) /\ SubSeq(t, 1, Len(s)) = s

RECURSIVE Flatten(_)
Flatten(ss) == IF ss = << >> THEN << >> ELSE Head(ss) \o Flatten(Tail(ss))

\* a row without its fetch_time column
Unstamped(r) == [c \in DOMAIN r \ {"fetch_time"} |-> r[c]]
UnstampedAll(df) == [i \in DOMAIN df |-> Unstamped(df[i])]

\* the requests of try k of fetch_data in this run, and the rows they returned
TryLog(k) == SelectSeq(reqLog, LAMBDA e : e.try = k)
RowsReturned(k) ==
    Flatten([i \in DOMAIN TryLog(k) |->
                IF TryLog(k)[i].status = 200 THEN TryLog(k)[i].data ELSE << >>])

\* fetch_data has returned in this run; its batch; the try that produced it
FetchDone == xcom["fetch_data"] # << >> /\ reqLog # << >>
Batch == xcom["fetch_data"][1]
LastTry == reqLog[Len(reqLog)].try

\* what this run has appended to the tables so far
RawAppended == SubSeq(rawTable, rawLen0 + 1, Len(rawTable))
CleanAppended == SubSeq(cleanTable, cleanLen0 + 1, Len(cleanTable))

HardError(status) == status >= 400 /\ status # 429

----------------------------------------------------------------------------
(* C1: whenever the request for page p is answered 429, the next request  *)
(* of that try is again for page p, and the page counter stays at p: a    *)
(* 429 never makes fetch_data skip a page.                                *)
C1_RetrySamePage ==
    \A i \in DOMAIN reqLog :
        reqLog[i].status = 429 =>
            /\ (i < Len(reqLog) /\ reqLog[i + 1].try = reqLog[i].try)
                   => reqLog[i + 1].page = reqLog[i].page
            /\ (i = Len(reqLog) /\ stage = "fetch_data")
                   => page = reqLog[i].page

(* C2: a page request answered with an error status other than 429 ends   *)
(* that try of fetch_data: no later page is requested in the try, the try *)
(* pushes no batch, and what the run appends to the raw table holds no    *)
(* rows of that try (it is empty or the rows of a later try).             *)
C2_ErrorAbortsFetch ==
    \A i \in DOMAIN reqLog :
        HardError(reqLog[i].status) =>
            /\ \A j \in DOMAIN reqLog : j > i => reqLog[j].try > reqLog[i].try
            /\ i = Len(reqLog) =>
                  /\ xcom["fetch_data"] = << >>
                  /\ all_data = << >>
                  /\ \/ stage = "failed"
                     \/ stage = "fetch_data" /\ page = 1 /\ tries = reqLog[i].try + 1
                  /\ RawAppended = << >>
            /\ \/ RawAppended = << >>
               \/ /\ LastTry > reqLog[i].try
                  /\ UnstampedAll(RawAppended) = RowsReturned(LastTry)

C2_Witness ==
    /\ Len(reqLog) > 2
    /\ reqLog[1].status = 200
    /\ HardError(reqLog[2].status)
    /\ RawAppended # << >>

(* C3: when every request of the try that produced the batch was answered *)
(* 200, the try issued exactly one request per page, for pages 1..pages   *)
(* in increasing order, and the batch is the rows returned for those      *)
(* pages, concatenated in page order: at most pages * per_page rows.      *)
C3_AllPagesInOrder ==
    (FetchDone /\ \A e \in Range(TryLog(LastTry)) : e.status = 200) =>
        /\ Len(TryLog(LastTry)) = pages
        /\ \A i \in DOMAIN TryLog(LastTry) : TryLog(LastTry)[i].page = i
        /\ UnstampedAll(Batch) =
               Flatten([i \in DOMAIN TryLog(LastTry) |-> TryLog(LastTry)[i].data])
        /\ Len(Batch) <= pages * per_page

C3_Witness ==
    /\ FetchDone
    /\ \A e \in Range(TryLog(LastTry)) : e.status = 200
    /\ Len(Batch) = pages * per_page
    /\ Batch[1]["current_price"] # Batch[2]["current_price"]

(* C4: all rows of the batch fetch_data returns carry one fetch_time, and *)
(* it is a time later than every request of the try: it is taken once,    *)
(* after the last page.  The rows the raw load appends share it too.      *)
C4_OneFetchTime ==
    FetchDone =>
        /\ \A r, q \in Range(Batch) : r["fetch_time"] = q["fetch_time"]
        /\ \A r \in Range(Batch) : \A e \in Range(TryLog(LastTry)) :
               e.time < to_datetime(r["fetch_time"])
        /\ \A r, q \in Range(RawAppended) : r["fetch_time"] = q["fetch_time"]

C4_Witness ==
    /\ FetchDone
    /\ Len(Batch) >= 2
    /\ Len(RawAppended) >= 2

----------------------------------------------------------------------------
(* Properties of the cleaner, under SpecClean *)

\* clean_data has returned in this run; its output
CleanDone == xcom["clean_data"] # << >>
Cleaned == xcom["clean_data"][1]

\* the rows of the raw table with the latest fetch_time, as times compare
LatestRows ==
    {r \in Range(rawTable) :
        \A q \in Range(rawTable) :
            to_datetime(q["fetch_time"]) <= to_datetime(r["fetch_time"])}

Complete(r) == r["id"] # NULL /\ r["symbol"] # NULL /\ r["name"] # NULL

UniqueIds(df) == \A i, j \in DOMAIN df : i # j => df[i]["id"] # df[j]["id"]

\* o holds some of the columns of r, with the values of r
ProjectionOf(o, r) == DOMAIN o \subseteq DOMAIN r /\ \A c \in DOMAIN o : o[c] = r[c]

(* C5: the output of clean_data never holds two rows with the same id,    *)
(* whatever the raw table holds; so the rows one run appends to the clean *)
(* table have unique ids.                                                 *)
C5_UniqueIds ==
    /\ CleanDone => UniqueIds(Cleaned)
    /\ UniqueIds(CleanAppended)

C5_Witness ==
    /\ CleanDone
    /\ CleanAppended # << >>
    /\ \E r1, r2 \in LatestRows :
          /\ r1["id"] = "bitcoin" /\ Complete(r1)
          /\ r2["id"] = "ethereum" /\ Complete(r2)
    /\ Cardinality(LatestRows) < Cardinality({i \in DOMAIN rawTable : rawTable[i] \in LatestRows})

(* C6: the output of clean_data never holds a row whose id, symbol or     *)
(* name is null, whatever the raw table holds; nor do the rows appended   *)
(* to the clean table.  Such rows are dropped; the task returns.          *)
C6_NoNullKeys ==
    /\ CleanDone => \A r \in Range(Cleaned) : Complete(r)
    /\ \A r \in Range(CleanAppended) : Complete(r)

C6_Witness ==
    /\ CleanDone
    /\ CleanAppended # << >>
    /\ \E r \in LatestRows : r["id"] = NULL
    /\ \E r \in LatestRows :
          r["id"] # NULL /\ (r["symbol"] = NULL \/ r["name"] = NULL)

(* C7: clean_data reads the raw rows whose fetch_time is the maximum in   *)
(* the table, and only those: every output row is the projection of such  *)
(* a row (none of an older batch, none made up), and every id whose rows  *)
(* in the latest batch are all complete has a row in the output.          *)
C7_LatestBatchOnly ==
    CleanDone =>
        LET latest == LatestRows
            out == Range(Cleaned)
        IN  /\ \A o \in out : \E r \in latest : ProjectionOf(o, r)
            /\ \A r \in latest :
                  (\A q \in latest : q["id"] = r["id"] => Complete(q))
                      => \E o \in out : ProjectionOf(o, r)

C7_Witness ==
    /\ CleanDone
    /\ Cleaned # << >>
    /\ \E r \in Range(rawTable) \ LatestRows :
          /\ Complete(r)
          /\ \A q \in LatestRows : q["id"] # r["id"]

----------------------------------------------------------------------------
(* Properties of the run, under Spec *)

Last(s) == s[Len(s)]

(* C8: within a run the tasks execute in the order fetch_data,            *)
(* load_raw_to_bigquery, clean_data, load_clean_to_bigquery: a task       *)
(* starts only after its predecessor succeeded, after a failed try only   *)
(* the same task runs again, and the run ends only in success after       *)
(* load_clean_to_bigquery or in failure at the task that failed.          *)
C8_LinearPipeline ==
    /\ stage \in Range(Tasks) \cup {"idle", "success", "failed"}
    /\ log # << >> => log[1][1] = Tasks[1]
    /\ \A i \in 1..(Len(log) - 1) :
          IF log[i][2] = "success"
          THEN TaskIndex(log[i + 1][1]) = TaskIndex(log[i][1]) + 1
          ELSE log[i + 1][1] = log[i][1]
    /\ stage \in Range(Tasks) =>
          \/ log = << >> /\ stage = Tasks[1]
          \/ /\ log # << >> /\ Last(log)[2] = "success"
             /\ TaskIndex(stage) = TaskIndex(Last(log)[1]) + 1
          \/ log # << >> /\ Last(log)[2] = "failed" /\ stage = Last(log)[1]
    /\ stage = "success" <=>
          (log # << >> /\ Last(log) = <<Tasks[Len(Tasks)], "success">>)
    /\ stage = "failed" => (log # << >> /\ Last(log)[2] = "failed")
    /\ stage = "idle" => log = << >>

C8_Witness ==
    /\ stage = "success"
    /\ \E i \in DOMAIN log : log[i] = <<"clean_data", "failed">>

(* C9: both tables are append-only.  Every step leaves the earlier        *)
(* contents of each table in place; the raw table changes only in a       *)
(* successful step of load_raw_to_bigquery and the clean table only in a  *)
(* successful step of load_clean_to_bigquery.                             *)
C9_AppendOnly ==
    [][/\ IsPrefix(rawTable, rawTable')
       /\ IsPrefix(cleanTable, cleanTable')
       /\ rawTable' # rawTable =>
             /\ stage = "load_raw_to_bigquery" /\ stage' = "clean_data"
             /\ cleanTable' = cleanTable
       /\ cleanTable' # cleanTable =>
             /\ stage = "load_clean_to_bigquery" /\ stage' = "success"
             /\ rawTable' = rawTable]_vars

C9_Witness ==
    /\ rawLen0 > 0
    /\ cleanLen0 > 0
    /\ RawAppended # << >>
    /\ CleanAppended # << >>

(* C10: ensuring the datasets is idempotent.  No import of the DAG file   *)
(* raises, each import leaves exactly the two datasets (and whatever else *)
(* existed) in the warehouse, and every import after the first changes    *)
(* nothing.                                                               *)
C10_EnsureIdempotent ==
    [][runs' # runs =>
          /\ ~importError'
          /\ datasets' = datasets \cup BothDatasets
          /\ runs >= 1 => datasets' = datasets]_vars

C10_Witness ==
    /\ runs >= 2
    /\ ~importError
    /\ datasets = BothDatasets

----------------------------------------------------------------------------
\* the finished tries of task t in this run
TriesOf(t) == SelectSeq(log, LAMBDA e : e[1] = t)

(* C11: every task of a run is tried at most twice.  A first try that     *)
(* fails is followed by one more try of the same task; when the second    *)
(* try fails too the run has failed and nothing runs after it.            *)
C11_RetryOnce ==
    /\ \A t \in Range(Tasks) : Len(TriesOf(t)) <= 2
    /\ stage \in Range(Tasks) => tries = Len(TriesOf(stage)) + 1
    /\ \A i \in DOMAIN log :
          log[i][2] = "failed" =>
             IF \E j \in 1..(i - 1) : log[j][1] = log[i][1]
             THEN i = Len(log) /\ stage = "failed"
             ELSE /\ i < Len(log) => log[i + 1][1] = log[i][1]
                  /\ i = Len(log) => (stage = log[i][1] /\ tries = 2)

C11_Witness ==
    /\ stage = "failed"
    /\ log = <<<<"fetch_data", "failed">>, <<"fetch_data", "success">>,
               <<"load_raw_to_bigquery", "failed">>,
               <<"load_raw_to_bigquery", "failed">>>>

----------------------------------------------------------------------------
\* row i of df is the first row of df with its id
FirstOfId(df, i) == \A j \in 1..(i - 1) : df[j]["id"] # df[i]["id"]

\* the rows of df whose index is in keep, in the order of df
RECURSIVE SubByIndex(_, _, _)
SubByIndex(df, keep, i) ==
    IF i > Len(df) THEN << >>
    ELSE (IF i \in keep THEN <<df[i]>> ELSE << >>) \o SubByIndex(df, keep, i + 1)

OutputColumns ==
    {"id", "symbol", "name", "current_price", "market_cap", "total_volume",
     "high_24h", "low_24h", "price_change_percentage_24h", "fetch_time"}

\* the reference pipeline: first rows of every id, of these the complete
\* ones, of these the output columns that exist
Reference(df) ==
    LET firsts == {i \in DOMAIN df : FirstOfId(df, i)}
        kept == {i \in firsts : Complete(df[i])}
        rows == SubByIndex(df, kept, 1)
    IN  [k \in DOMAIN rows |->
            [c \in DOMAIN rows[k] \cap OutputColumns |-> rows[k][c]]]

(* C12: the output of clean_data is the reference pipeline applied to the *)
(* rows of the latest batch in the order the query returned them: keep    *)
(* the first row of each id, then drop the rows with a null id, symbol or *)
(* name, then keep the output columns.  So an id whose first row has a    *)
(* null key has no row in the output, even when a later row of that id is *)
(* complete.                                                              *)
C12_DedupThenDropna ==
    queried # << >> =>
        LET df == queried[1]
            latest == LatestRows
        IN  /\ CleanDone
            /\ Range(df) = latest
            /\ Len(df) = Cardinality({i \in DOMAIN rawTable : rawTable[i] \in latest})
            /\ Cleaned = Reference(df)
            /\ \A i \in DOMAIN df :
                  (FirstOfId(df, i) /\ ~Complete(df[i]))
                      => \A o \in Range(Cleaned) : o["id"] # df[i]["id"]

C12_Witness ==
    /\ queried # << >>
    /\ Cleaned # << >>
    /\ \E i, j \in DOMAIN queried[1] :
          /\ i < j
          /\ FirstOfId(queried[1], i)
          /\ queried[1][i]["id"] # NULL /\ ~Complete(queried[1][i])
          /\ queried[1][j]["id"] = queried[1][i]["id"] /\ Complete(queried[1][j])

----------------------------------------------------------------------------
\* a try of a task fails in this step
TryFails == Len(log') = Len(log) + 1 /\ Last(log')[2] = "failed"

\* the batch of fetch_data as load_raw_to_bigquery stores it: the same
\* rows, the same fetch_time
SameBatch(table, json) ==
    /\ Len(table) = Len(json)
    /\ \A i \in DOMAIN table :
          /\ Unstamped(table[i]) = Unstamped(json[i])
          /\ to_datetime(table[i]["fetch_time"]) = to_datetime(json[i]["fetch_time"])

\* where a failed run stands
FailedRun ==
    stage = "failed" =>
        IF Last(log)[1] \in {"fetch_data", "load_raw_to_bigquery"}
        THEN Len(rawTable) = rawLen0 /\ Len(cleanTable) = cleanLen0
        ELSE SameBatch(RawAppended, Batch) /\ Len(cleanTable) = cleanLen0

(* C13: nothing is rolled back and nothing is half written.  A try that   *)
(* fails changes neither table.  A run that failed at clean_data or       *)
(* load_clean_to_bigquery leaves the batch it appended in the raw table   *)
(* and the clean table as it was; a run that failed at fetch_data or      *)
(* load_raw_to_bigquery leaves both tables as they were.                  *)
C13_NoRollback ==
    /\ []FailedRun
    /\ [][TryFails => (rawTable' = rawTable /\ cleanTable' = cleanTable)]_vars

C13_Witness ==
    /\ stage = "failed"
    /\ Last(log)[1] = "load_clean_to_bigquery"
    /\ rawLen0 > 0
    /\ RawAppended # << >>

\* the tries of fetch_data that issued requests in this run
FetchTries == {reqLog[i].try : i \in DOMAIN reqLog}

\* requests never outnumber the pages
RequestsBounded ==
    /\ \A k \in FetchTries :
          /\ Len(TryLog(k)) <= pages
          /\ \A i \in DOMAIN TryLog(k) : TryLog(k)[i].page = i
    /\ stage = "fetch_data" =>
          (page <= pages + 1 /\ Len(TryLog(tries)) = page - 1)

(* C14: one invocation of fetch_coingecko_data issues at most `pages`     *)
(* requests, one for each page in turn, whatever the answers are; every   *)
(* request that does not end the try moves it to the next page, so the    *)
(* invocation ends, also when every answer is 429.                        *)
C14_AtMostPagesRequests ==
    /\ []RequestsBounded
    /\ [][(stage = "fetch_data" /\ Len(reqLog') = Len(reqLog) + 1
                /\ stage' = "fetch_data" /\ tries' = tries)
             => page' = page + 1]_vars

C14_Witness ==
    /\ FetchDone
    /\ Len(TryLog(LastTry)) = pages
    /\ \A e \in Range(TryLog(LastTry)) : e.status = 429

(* C15: what a run appends to the clean table comes from the rows the     *)
(* same run fetched and appended to the raw table: every row it appends   *)
(* to the clean table is the projection of a row it appended to the raw   *)
(* table.                                                                 *)
C15_OwnBatchOnly ==
    \A o \in Range(CleanAppended) : \E r \in Range(RawAppended) : ProjectionOf(o, r)

====
